---- MODULE Spec2Model ----
(***************************************************************************)
(* Masters Fantasy Pool (streamlit_app.py): one refresh cycle of the       *)
(* script, from the feed fetch to the sidebar, and the pure helpers        *)
(* normalize_topar and get_player_score.                                   *)
(*                                                                         *)
(* Text is modelled as a sequence of one-character strings, so that        *)
(* str.strip, str.lower, str.upper and int() are computed, not assumed.    *)
(***************************************************************************)
EXTENDS Integers, Sequences, FiniteSets, TLC

\* ---------------------------------------------------------------- bounds
NumTeams == 3      \* teams in the roster (masters_teams_hardcoded.teams_data)
FeedLen == 3       \* at most this many player records in the feed
MaxTokLen == 3     \* longest to-par token given to normalize_topar on its own

\* ------------------------------------------------------ program constants
NumTiers == 6      \* range(1, 7)
BestOf == 5        \* sorted(...)[:5]

\* ------------------------------------------------------------ Python text
Digits == <<"0", "1", "2", "3", "4", "5", "6", "7", "8", "9">>

IsDigit(c) == \E i \in 1..10 : Digits[i] = c

DigitVal(c) == (CHOOSE i \in 1..10 : Digits[i] = c) - 1

IsSpace(c) == c = " "

\* str.lower on one character (the letters the model's names use)
LowerChar(c) ==
    CASE c = "A" -> "a"
      [] c = "B" -> "b"
      [] c = "C" -> "c"
      [] c = "E" -> "e"
      [] c = "K" -> "k"
      [] c = "O" -> "o"
      [] c = "Z" -> "z"
      [] OTHER -> c

\* str.upper on one character
UpperChar(c) ==
    CASE c = "a" -> "A"
      [] c = "b" -> "B"
      [] c = "c" -> "C"
      [] c = "e" -> "E"
      [] c = "k" -> "K"
      [] c = "o" -> "O"
      [] c = "z" -> "Z"
      [] OTHER -> c

Lower(s) == [i \in 1..Len(s) |-> LowerChar(s[i])]

Upper(s) == [i \in 1..Len(s) |-> UpperChar(s[i])]

RECURSIVE LStrip(_)
LStrip(s) == IF s # <<>> /\ IsSpace(Head(s)) THEN LStrip(Tail(s)) ELSE s

RECURSIVE RStrip(_)
RStrip(s) ==
    IF s # <<>> /\ IsSpace(s[Len(s)]) THEN RStrip(SubSeq(s, 1, Len(s) - 1)) ELSE s

\* str.strip()
Strip(s) == RStrip(LStrip(s))

\* ------------------------------------------------------- optional values
None == [none |-> TRUE]

Some(x) == [none |-> FALSE, v |-> x]

IsNone(o) == o.none

\* ---------------------------------------------------------- Python int()
\* The digits part of an int() literal: digits, with single underscores
\* allowed between two digits.
IsIntBody(b) ==
    /\ b # <<>>
    /\ \A i \in 1..Len(b) : IsDigit(b[i]) \/ b[i] = "_"
    /\ IsDigit(b[1])
    /\ IsDigit(b[Len(b)])
    /\ \A i \in 1..(Len(b) - 1) : ~(b[i] = "_" /\ b[i + 1] = "_")

RECURSIVE IntBodyVal(_, _)
IntBodyVal(b, acc) ==
    IF b = <<>> THEN acc
    ELSE IF Head(b) = "_" THEN IntBodyVal(Tail(b), acc)
    ELSE IntBodyVal(Tail(b), 10 * acc + DigitVal(Head(b)))

\* int(text) as it would be if only a sign and digits were accepted
PyIntText_strict(s) ==
    LET signed == s # <<>> /\ Head(s) \in {"+", "-"}
        body == IF signed THEN Tail(s) ELSE s
    IN  IF body = <<>> \/ \E i \in 1..Len(body) : ~IsDigit(body[i]) THEN None
        ELSE IF signed /\ Head(s) = "-" THEN Some(0 - IntBodyVal(body, 0))
        ELSE Some(IntBodyVal(body, 0))

\* int(text): surrounding whitespace is dropped, then an optional sign, then
\* the digits; anything else raises ValueError (None here).
PyIntText(s) ==
    LET t == Strip(s)
        signed == t # <<>> /\ Head(t) \in {"+", "-"}
        body == IF signed THEN Tail(t) ELSE t
    IN  IF ~IsIntBody(body) THEN None
        ELSE IF signed /\ Head(t) = "-" THEN Some(0 - IntBodyVal(body, 0))
        ELSE Some(IntBodyVal(body, 0))

\* int(val) inside try/except: int(None) raises TypeError
PyInt(val) == IF IsNone(val) THEN None ELSE PyIntText(val.v)

\* normalize_topar(val); val is None (key absent) or Some(text)
normalize_topar(val) ==
    IF val = Some(<<"E">>) THEN Some(0) ELSE PyInt(val)

\* ------------------------------------------------------------ sequences
RECURSIVE SumSeq(_)
SumSeq(s) == IF s = <<>> THEN 0 ELSE Head(s) + SumSeq(Tail(s))

Take(s, n) == SubSeq(s, 1, IF Len(s) < n THEN Len(s) ELSE n)

\* insert x into the ascending sequence s after the elements that are <= x
RECURSIVE InsertAsc(_, _)
InsertAsc(s, x) ==
    IF s = <<>> THEN <<x>>
    ELSE IF Head(s) <= x THEN <<Head(s)>> \o InsertAsc(Tail(s), x)
    ELSE <<x>> \o s

\* sorted(list of int)
RECURSIVE Sorted(_)
Sorted(s) ==
    IF s = <<>> THEN <<>>
    ELSE InsertAsc(Sorted(SubSeq(s, 1, Len(s) - 1)), s[Len(s)])

\* min in place of max
RECURSIVE Max_min(_)
Max_min(s) ==
    IF Len(s) = 1 THEN s[1]
    ELSE LET m == Max_min(Tail(s)) IN IF Head(s) <= m THEN Head(s) ELSE m

\* max(list of int), list not empty
RECURSIVE Max(_)
Max(s) ==
    IF Len(s) = 1 THEN s[1]
    ELSE LET m == Max(Tail(s)) IN IF Head(s) >= m THEN Head(s) ELSE m

\* the values of a dict, in some order (max does not depend on it)
RECURSIVE Values(_)
Values(d) ==
    IF DOMAIN d = {} THEN <<>>
    ELSE LET k == CHOOSE k \in DOMAIN d : TRUE
         IN  <<d[k]>> \o Values([x \in (DOMAIN d) \ {k} |-> d[x]])

\* ------------------------------------------------------------- the feed
\* One player record of the feed. A field holding None is a key the JSON
\* object does not have (p.get returns None or the default).
PlayerRecord(name, topar, status, id) ==
    [full_name |-> name, topar |-> topar, status |-> status, id |-> id]

\* the players of the field, in the order the feed lists them
FeedNames == <<<<"a">>, <<"B", " ">>, <<"c">>>>

\* the id the feed gives a player; player c has none
FeedId(name) ==
    CASE name = <<"a">> -> Some(1)
      [] name = <<"B", " ">> -> Some(2)
      [] OTHER -> None

\* (topar, status) of a record
FeedScores ==
    { <<Some(<<"E">>), None>>,
      <<Some(<<"-", "1">>), Some(<<"O", "K">>)>>,
      <<Some(<<"2">>), Some(<<"C">>)>>,
      <<Some(<<"1">>), Some(<<"c">>)>>,
      <<Some(<<>>), Some(<<"O", "K">>)>> }

FeedRecords ==
    { PlayerRecord(FeedNames[n], ts[1], ts[2], FeedId(FeedNames[n])) :
        n \in 1..Len(FeedNames), ts \in FeedScores }

Key(name) == Lower(Strip(name))

FeedRank(p) == CHOOSE n \in 1..Len(FeedNames) : FeedNames[n] = p.full_name

\* the feed is keyed by player: it lists each player of the field at most
\* once, in the order of the field
DistinctPlayers(ps) ==
    \A i, j \in 1..Len(ps) : i < j => FeedRank(ps[i]) < FeedRank(ps[j])

Feeds ==
    { ps \in UNION { [1..n -> FeedRecords] : n \in 0..FeedLen } : DistinctPlayers(ps) }

\* what requests.get(url).json() gives: the two known envelopes, another
\* JSON shape, or a transport failure
Responses ==
    { [kind |-> k, player |-> ps] : k \in {"data.player", "player"}, ps \in Feeds }
    \cup { [kind |-> "other", player |-> <<>>], [kind |-> "failed", player |-> <<>>] }

Consumed == [kind |-> "consumed", player |-> <<>>]

\* ----------------------------------------------------------- the roster
Team(person, t1, t2, t3, t4, t5, t6) ==
    [Person |-> person, Tier |-> <<t1, t2, t3, t4, t5, t6>>]

TeamPool ==
    { Team("P", <<"a">>, <<"b">>, <<"a", " ">>, <<"B">>, <<"A">>, <<"b">>),
      Team("Q", <<"b">>, <<"b">>, <<"c">>, <<" ", "C">>, <<"c">>, <<"a">>),
      Team("R", <<"c">>, <<"a">>, <<"c">>, <<"c", " ">>, <<"b">>, <<"C">>) }

Rosters == [1..NumTeams -> TeamPool]

\* ---------------------------------------------------------------- state
VARIABLES
    response,           \* what the HTTP request of this cycle returns
    teams_data,         \* the imported roster
    pc,                 \* where the script is
    live_data,          \* dict: lower-cased, trimmed name -> player record
    worst_score,        \* None until line 83 has run
    leaderboard,        \* list of rows
    all_player_scores,  \* list of <<name, adjusted>>
    resolved,           \* what get_player_score returned, call by call
    st_error,           \* text given to st.error, "" if none
    exc,                \* the uncaught exception that ended the script, "" if none
    table,              \* the rendered leaderboard table, None if not rendered
    sidebar,            \* the rendered summary panel, None if not rendered
    val,                \* normalize_topar on its own: the argument
    ret                 \* normalize_topar on its own: <<>> before the call, <<result>> after

vars ==
    <<response, teams_data, pc, live_data, worst_score, leaderboard,
      all_player_scores, resolved, st_error, exc, table, sidebar, val, ret>>

cycleVars ==
    <<response, teams_data, pc, live_data, worst_score, leaderboard,
      all_player_scores, resolved, st_error, exc, table, sidebar>>

EmptyDict == [k \in {} |-> None]

\* -------------------------------------------------- fetch_live_scores
\* {p["full_name"].strip().lower(): p for p in player_data}: a later record
\* replaces an earlier one with the same key
RECURSIVE FeedIndex(_)
FeedIndex(ps) ==
    IF ps = <<>> THEN EmptyDict
    ELSE LET rest == FeedIndex(SubSeq(ps, 1, Len(ps) - 1))
             p == ps[Len(ps)]
             k == Lower(Strip(p.full_name))
         IN  [x \in DOMAIN rest \cup {k} |-> IF x = k THEN p ELSE rest[x]]

\* the value fetch_live_scores returns for a response that arrived
fetch_live_scores(res) ==
    IF res.kind \in {"data.player", "player"} THEN FeedIndex(res.player)
    ELSE EmptyDict

\* get_player_score with the key trimmed but not lower-cased
get_player_score_exact(name, data) ==
    LET key == Strip(name)
    IN  IF key \notin DOMAIN data THEN <<None, <<"N", "O", "T", " ", "F", "O", "U", "N", "D">> >>
        ELSE LET p == data[key]
                 status == IF IsNone(p.status) THEN <<"O", "K">> ELSE p.status.v
             IN  <<normalize_topar(p.topar), status, p.id>>

\* ---------------------------------------------------- get_player_score
\* the tuple returned: two values when the player is not in the feed
get_player_score(name, data) ==
    LET key == Lower(Strip(name))
    IN  IF key \notin DOMAIN data THEN <<None, <<"N", "O", "T", " ", "F", "O", "U", "N", "D">> >>
        ELSE LET p == data[key]
                 status == IF IsNone(p.status) THEN <<"O", "K">> ELSE p.status.v
             IN  <<normalize_topar(p.topar), status, p.id>>

\* the pool with the cut players left out
WorstPool_skipcut(data) ==
    LET vs == Values(data)
        ok == SelectSeq(vs, LAMBDA p : /\ ~IsNone(normalize_topar(p.topar))
                                       /\ (IsNone(p.status) \/ Upper(p.status.v) # <<"C">>))
    IN  [i \in 1..Len(ok) |-> normalize_topar(ok[i].topar).v]

\* ---------------------------------------------------------- worst_score
\* the list the max of line 83 is taken over
WorstPool(data) ==
    LET vs == Values(data)
        ok == SelectSeq(vs, LAMBDA p : ~IsNone(normalize_topar(p.topar)))
    IN  [i \in 1..Len(ok) |-> normalize_topar(ok[i].topar).v]

\* ------------------------------------------------- the leaderboard loop
\* line 102: the player takes the penalty
IsPenalized(score, status) == IsNone(score) \/ Upper(status) = <<"C">>

\* one cell of row["Players"]: the image (if an id), the name, the score
\* shown and whether it is shown as a cut score
PlayerCell(pid, name, adjusted, cut) ==
    [img |-> pid, name |-> name, score |-> adjusted, cut |-> cut]

\* the body of the inner loop for tiers i..6 of one team; acc carries the
\* row under construction, all_player_scores, the results of
\* get_player_score and the exception raised, if any
RECURSIVE ScoreTiers(_, _, _, _, _)
ScoreTiers(team, i, data, worst, acc) ==
    IF i > NumTiers \/ acc.exc # "" THEN acc
    ELSE LET name == Strip(team.Tier[i])
             got == get_player_score(name, data)
         IN  IF Len(got) # 3
             THEN [acc EXCEPT !.exc = "ValueError: not enough values to unpack",
                              !.resolved = Append(@, got)]
             ELSE LET score == got[1]
                      status == got[2]
                      pid == got[3]
                      cut == IsPenalized(score, status)
                      adjusted == IF cut THEN worst ELSE score.v
                  IN  ScoreTiers(team, i + 1, data, worst,
                        [acc EXCEPT
                           !.AdjustedScores = Append(@, adjusted),
                           !.Players = Append(@, PlayerCell(pid, name, adjusted, cut)),
                           !.all = Append(@, <<name, adjusted>>),
                           !.resolved = Append(@, got)])

\* the first five scores as appended, without the sort
Total_unsorted(adjusted) == SumSeq(Take(adjusted, BestOf))

\* line 113
Total(adjusted) == SumSeq(Take(Sorted(adjusted), BestOf))

\* an insertion that puts a row before the rows of the same total
RECURSIVE InsertRow_unstable(_, _)
InsertRow_unstable(rows, r) ==
    IF rows = <<>> THEN <<r>>
    ELSE IF Head(rows).Total < r.Total
         THEN <<Head(rows)>> \o InsertRow_unstable(Tail(rows), r)
    ELSE <<r>> \o rows

\* leaderboard.sort(key=lambda x: x["Total"]): stable
RECURSIVE InsertRow(_, _)
InsertRow(rows, r) ==
    IF rows = <<>> THEN <<r>>
    ELSE IF Head(rows).Total <= r.Total THEN <<Head(rows)>> \o InsertRow(Tail(rows), r)
    ELSE <<r>> \o rows

RECURSIVE SortByTotal(_)
SortByTotal(rows) ==
    IF rows = <<>> THEN <<>>
    ELSE InsertRow(SortByTotal(SubSeq(rows, 1, Len(rows) - 1)), rows[Len(rows)])

\* -------------------------------------------------------------- sidebar
\* min(all_player_scores, key=lambda x: x[1]): the first pair with the least score
RECURSIVE MinByScore(_)
MinByScore(ps) ==
    IF Len(ps) = 1 THEN ps[1]
    ELSE LET m == MinByScore(SubSeq(ps, 1, Len(ps) - 1))
         IN  IF ps[Len(ps)][2] < m[2] THEN ps[Len(ps)] ELSE m

\* tier_counts[tier][player] += 1 on a dict kept as the list of its items in
\* insertion order
Increment(items, player) ==
    IF \E j \in 1..Len(items) : items[j][1] = player
    THEN [j \in 1..Len(items) |->
            IF items[j][1] = player THEN <<player, items[j][2] + 1>> ELSE items[j]]
    ELSE Append(items, <<player, 1>>)

\* the items of tier_counts["Tier i"] after the first n teams
RECURSIVE TierItems(_, _, _)
TierItems(teams, i, n) ==
    IF n = 0 THEN <<>>
    ELSE Increment(TierItems(teams, i, n - 1), Strip(teams[n].Tier[i]))

\* the key x[1] in place of -x[1]: ascending counts
RECURSIVE InsertItem_asc(_, _)
InsertItem_asc(items, it) ==
    IF items = <<>> THEN <<it>>
    ELSE IF Head(items)[2] <= it[2]
         THEN <<Head(items)>> \o InsertItem_asc(Tail(items), it)
    ELSE <<it>> \o items

\* sorted(items, key=lambda x: -x[1]): stable
RECURSIVE InsertItem(_, _)
InsertItem(items, it) ==
    IF items = <<>> THEN <<it>>
    ELSE IF 0 - Head(items)[2] <= 0 - it[2]
         THEN <<Head(items)>> \o InsertItem(Tail(items), it)
    ELSE <<it>> \o items

RECURSIVE SortByCount(_)
SortByCount(items) ==
    IF items = <<>> THEN <<>>
    ELSE InsertItem(SortByCount(SubSeq(items, 1, Len(items) - 1)), items[Len(items)])

\* the lists printed under "Player Picks by Tier", tier by tier
tier_counts(teams) ==
    [i \in 1..NumTiers |-> SortByCount(TierItems(teams, i, Len(teams)))]

\* ---------------------------------------------------------------- cycle
NoArg == Some(<<>>)

Init ==
    /\ response \in Responses
    /\ teams_data \in Rosters
    /\ pc = "fetch"
    /\ live_data = EmptyDict
    /\ worst_score = None
    /\ leaderboard = <<>>
    /\ all_player_scores = <<>>
    /\ resolved = <<>>
    /\ st_error = ""
    /\ exc = ""
    /\ table = None
    /\ sidebar = None
    /\ val = NoArg
    /\ ret = <<>>

\* lines 46-58 and 76-80: the fetch and the guard on its result
FetchLiveScores ==
    /\ pc = "fetch"
    /\ IF response.kind = "failed"
       THEN /\ pc' = "raised"
            /\ exc' = "requests.RequestException"
            /\ UNCHANGED <<live_data, st_error>>
       ELSE LET data == fetch_live_scores(response)
            IN  /\ live_data' = data
                /\ exc' = ""
                /\ IF DOMAIN data = {}
                   THEN /\ st_error' = "Could not fetch live Masters data."
                        /\ pc' = "stopped"
                   ELSE /\ st_error' = ""
                        /\ pc' = "worst"
    /\ response' = Consumed
    /\ UNCHANGED <<teams_data, worst_score, leaderboard, all_player_scores,
                   resolved, table, sidebar, val, ret>>

\* lines 82-87 as they would be with max(..., default=0)
WorstScore_default ==
    /\ pc = "worst"
    /\ LET pool == WorstPool(live_data)
       IN  worst_score' = Some(IF pool = <<>> THEN 0 ELSE Max(pool))
    /\ pc' = "teams"
    /\ UNCHANGED <<response, teams_data, live_data, leaderboard, all_player_scores,
                   resolved, st_error, exc, table, sidebar, val, ret>>

\* lines 82-87: max() of an empty list raises ValueError
WorstScore ==
    /\ pc = "worst"
    /\ LET pool == WorstPool(live_data)
       IN  IF pool = <<>>
           THEN /\ pc' = "raised"
                /\ exc' = "ValueError: max() arg is an empty sequence"
                /\ UNCHANGED worst_score
           ELSE /\ worst_score' = Some(Max(pool))
                /\ pc' = "teams"
                /\ UNCHANGED exc
    /\ UNCHANGED <<response, teams_data, live_data, leaderboard, all_player_scores,
                   resolved, st_error, table, sidebar, val, ret>>

\* lines 93-114: one pass of the outer loop, for the next team of the roster
ScoreTeam ==
    /\ pc = "teams"
    /\ Len(leaderboard) < Len(teams_data)
    /\ LET t == Len(leaderboard) + 1
           team == teams_data[t]
           acc == ScoreTiers(team, 1, live_data, worst_score.v,
                    [AdjustedScores |-> <<>>, Players |-> <<>>,
                     all |-> all_player_scores, resolved |-> resolved, exc |-> ""])
       IN  /\ all_player_scores' = acc.all
           /\ resolved' = acc.resolved
           /\ IF acc.exc # ""
              THEN /\ pc' = "raised"
                   /\ exc' = acc.exc
                   /\ UNCHANGED leaderboard
              ELSE /\ leaderboard' = Append(leaderboard,
                        [idx |-> t, Team |-> team.Person, Players |-> acc.Players,
                         AdjustedScores |-> acc.AdjustedScores,
                         Total |-> Total(acc.AdjustedScores)])
                   /\ UNCHANGED <<pc, exc>>
    /\ UNCHANGED <<response, teams_data, live_data, worst_score, st_error, table,
                   sidebar, val, ret>>

\* lines 116-117
SortLeaderboard ==
    /\ pc = "teams"
    /\ Len(leaderboard) = Len(teams_data)
    /\ leaderboard' = SortByTotal(leaderboard)
    /\ pc' = "table"
    /\ UNCHANGED <<response, teams_data, live_data, worst_score, all_player_scores,
                   resolved, st_error, exc, table, sidebar, val, ret>>

\* lines 119-131
RenderTable ==
    /\ pc = "table"
    /\ table' = Some([r \in 1..Len(leaderboard) |->
                        [Team |-> leaderboard[r].Team,
                         Players |-> leaderboard[r].Players,
                         Total |-> leaderboard[r].Total]])
    /\ pc' = "sidebar"
    /\ UNCHANGED <<response, teams_data, live_data, worst_score, leaderboard,
                   all_player_scores, resolved, st_error, exc, sidebar, val, ret>>

\* lines 133-148
Sidebar ==
    /\ pc = "sidebar"
    /\ sidebar' = Some([leader |-> leaderboard[1].Team,
                        best_player |-> MinByScore(all_player_scores),
                        tier_counts |-> tier_counts(teams_data)])
    /\ pc' = "done"
    /\ UNCHANGED <<response, teams_data, live_data, worst_score, leaderboard,
                   all_player_scores, resolved, st_error, exc, table, val, ret>>

Next ==
    \/ FetchLiveScores
    \/ WorstScore
    \/ ScoreTeam
    \/ SortLeaderboard
    \/ RenderTable
    \/ Sidebar

Spec == Init /\ [][Next]_vars

\* ------------------------------------------- normalize_topar on its own
TokenChars == {"E", "-", "+", "0", "1", "7", " ", "_", "x"}

\* the arguments: a missing to-par (None) and every text of at most
\* MaxTokLen characters
TokenInputs ==
    {None} \cup { Some(t) : t \in UNION { [1..n -> TokenChars] : n \in 0..MaxTokLen } }

InitNorm ==
    /\ val \in TokenInputs
    /\ ret = <<>>
    /\ response = Consumed
    /\ teams_data = <<>>
    /\ pc = "normalize"
    /\ live_data = EmptyDict
    /\ worst_score = None
    /\ leaderboard = <<>>
    /\ all_player_scores = <<>>
    /\ resolved = <<>>
    /\ st_error = ""
    /\ exc = ""
    /\ table = None
    /\ sidebar = None

\* lines 60-64
Normalize ==
    /\ pc = "normalize"
    /\ ret = <<>>
    /\ ret' = <<normalize_topar(val)>>
    /\ UNCHANGED <<val, cycleVars>>

NextNorm == Normalize

SpecNorm == InitNorm /\ [][NextNorm]_vars

\* ======================================================================
\* Properties
\* ======================================================================
Terminal == pc \in {"done", "stopped", "raised"}

\* the n-th call of get_player_score is for this team and tier
SlotTeam(n) == ((n - 1) \div NumTiers) + 1

SlotTier(n) == ((n - 1) % NumTiers) + 1

SlotRaw(n) == teams_data[SlotTeam(n)].Tier[SlotTier(n)]

\* the feed records whose name is the given name once both are trimmed and
\* lower-cased
Matches(name) ==
    { k \in DOMAIN live_data :
        Lower(Strip(live_data[k].full_name)) = Lower(Strip(name)) }

InFeed(name) == Matches(name) # {}

Normalizable(p) == ~IsNone(normalize_topar(p.topar))

StatusOf(p) == IF IsNone(p.status) THEN <<"O", "K">> ELSE p.status.v

IsCut(p) == StatusOf(p) \in {<<"C">>, <<"c">>}

\* C1: every row's Total is the sum of its six adjusted scores less one of
\* them, and the one left out is greater than or equal to each of the others.
C1_TotalIsBestFive ==
    \A r \in 1..Len(leaderboard) :
        LET adj == leaderboard[r].AdjustedScores
        IN  /\ Len(adj) = 6
            /\ \E k \in 1..6 :
                 /\ leaderboard[r].Total = SumSeq(adj) - adj[k]
                 /\ \A j \in 1..6 : adj[j] <= adj[k]

\* a finished cycle with a row whose largest adjusted score is not in the
\* last slot, and another slot ties with it
C1_Witness ==
    /\ pc = "done"
    /\ \E r \in 1..Len(leaderboard) :
         LET adj == leaderboard[r].AdjustedScores
         IN  \E j, k \in 1..5 : j # k /\ adj[j] = adj[k] /\ adj[j] > adj[6]

\* C2: every slot the loop reaches gets an adjusted score; it is worst_score
\* (the substitution is made) exactly when the player is penalized - not in
\* the feed, status "C" in any case, or a to-par that does not normalize -
\* and it is the player's own normalized to-par otherwise.
C2_PenalizedIffClaimed ==
    \A n \in 1..Len(resolved) :
        LET name == SlotRaw(n)
            penalized ==
                \/ ~InFeed(name)
                \/ \E k \in Matches(name) :
                     IsCut(live_data[k]) \/ ~Normalizable(live_data[k])
        IN  /\ n <= Len(all_player_scores)
            /\ penalized => all_player_scores[n][2] = worst_score.v
            /\ ~penalized =>
                 \A k \in Matches(name) :
                     all_player_scores[n][2] = normalize_topar(live_data[k].topar).v

\* C3: when the feed has a to-par that normalizes and some roster slot names
\* a player who is not in the feed, no exception ends the cycle, and the
\* cycle ends with a row for every team in which that slot has worst_score.
C3_MissingPlayerHandled ==
    ( /\ WorstPool(live_data) # <<>>
      /\ \E t \in 1..Len(teams_data), i \in 1..NumTiers : ~InFeed(teams_data[t].Tier[i]) )
    => /\ exc = ""
       /\ Terminal =>
            /\ pc = "done"
            /\ Len(leaderboard) = Len(teams_data)
            /\ \A r \in 1..Len(leaderboard), i \in 1..NumTiers :
                 ~InFeed(teams_data[leaderboard[r].idx].Tier[i])
                     => leaderboard[r].AdjustedScores[i] = worst_score.v

\* C4: once computed, worst_score is at least every to-par of the feed that
\* normalizes, whatever the record's status, and is one of them; no slot is
\* resolved before it is computed.
C4_WorstIsFeedMax ==
    /\ ~IsNone(worst_score) =>
         /\ \A k \in DOMAIN live_data :
              Normalizable(live_data[k])
                 => normalize_topar(live_data[k].topar).v <= worst_score.v
         /\ \E k \in DOMAIN live_data :
              normalize_topar(live_data[k].topar) = Some(worst_score.v)
    /\ pc \in {"teams", "table", "sidebar", "done"} => ~IsNone(worst_score)
    /\ resolved # <<>> => ~IsNone(worst_score)

\* a finished cycle in which only a cut player holds the feed's largest
\* to-par
C4_Witness ==
    /\ pc = "done"
    /\ \E k \in DOMAIN live_data :
         /\ IsCut(live_data[k])
         /\ normalize_topar(live_data[k].topar) = Some(worst_score.v)
    /\ \A k \in DOMAIN live_data :
         ~IsCut(live_data[k]) /\ Normalizable(live_data[k])
            => normalize_topar(live_data[k].topar).v < worst_score.v

\* C5: after the sort the leaderboard has one row per roster team, the
\* totals do not decrease down the list, and rows with equal totals are in
\* roster order.
C5_SortedStable ==
    pc \in {"table", "sidebar", "done"} =>
        /\ Len(leaderboard) = Len(teams_data)
        /\ \A t \in 1..Len(teams_data) :
             Cardinality({ r \in 1..Len(leaderboard) : leaderboard[r].idx = t }) = 1
        /\ \A r \in 1..Len(leaderboard) :
             leaderboard[r].Team = teams_data[leaderboard[r].idx].Person
        /\ \A r \in 1..(Len(leaderboard) - 1) :
             leaderboard[r].Total <= leaderboard[r + 1].Total
        /\ \A q, r \in 1..Len(leaderboard) :
             (q < r /\ leaderboard[q].Total = leaderboard[r].Total)
                => leaderboard[q].idx < leaderboard[r].idx

\* a sorted leaderboard in which the sort moved a team up and two teams tie
C5_Witness ==
    /\ pc = "done"
    /\ \E q, r \in 1..Len(leaderboard) :
         q < r /\ leaderboard[q].idx > leaderboard[r].idx
    /\ \E q, r \in 1..Len(leaderboard) :
         q < r /\ leaderboard[q].Total = leaderboard[r].Total

\* the feed of a response has no record whose to-par normalizes
NoneNormalizes(res) ==
    \A i \in 1..Len(res.player) : ~Normalizable(res.player[i])

\* C6: a response with an unrecognized envelope or an empty feed ends the
\* cycle at the guard with an error shown; a feed in which no to-par
\* normalizes ends it with the exception of line 83; in both cases no table
\* and no summary panel is rendered, and an ended cycle renders nothing more.
C6_FatalWithoutScores ==
    [][ /\ ( /\ pc = "fetch"
             /\ \/ response.kind = "other"
                \/ response.kind \in {"data.player", "player"} /\ response.player = <<>> )
           => (pc' = "stopped" /\ st_error' # "" /\ table' = None /\ sidebar' = None)
        /\ ( /\ pc = "fetch"
             /\ response.kind \in {"data.player", "player"}
             /\ response.player # <<>>
             /\ NoneNormalizes(response) )
           => (pc' = "worst" /\ WorstPool(live_data') = <<>>)
        /\ (pc = "worst" /\ WorstPool(live_data) = <<>>)
           => ( /\ pc' = "raised" /\ exc' # ""
                /\ leaderboard' = <<>> /\ table' = None /\ sidebar' = None )
        /\ pc \in {"stopped", "raised"} => FALSE
      ]_vars

\* the cycle of a feed with records, none of which normalizes, has ended
C6_Witness ==
    /\ pc = "raised"
    /\ DOMAIN live_data # {}
    /\ WorstPool(live_data) = <<>>
    /\ table = None
    /\ sidebar = None

\* ---- the readings of C7
IsSignedDecimal(t) ==
    LET body == IF t # <<>> /\ Head(t) \in {"+", "-"} THEN Tail(t) ELSE t
    IN  body # <<>> /\ \A i \in 1..Len(body) : IsDigit(body[i])

\* the number whose decimal digits are ds
RECURSIVE DecimalValue(_)
DecimalValue(ds) ==
    IF ds = <<>> THEN 0
    ELSE 10 * DecimalValue(SubSeq(ds, 1, Len(ds) - 1)) + DigitVal(ds[Len(ds)])

SignedValue(t) ==
    LET v == DecimalValue(SelectSeq(t, IsDigit))
    IN  IF t # <<>> /\ Head(t) = "-" THEN 0 - v ELSE v

\* C7 as claimed: "E" gives 0, the text of a signed integer (a sign or none,
\* then digits) gives that integer, and every other argument gives None.
C7_OnlyIntegerTexts ==
    ret # <<>> =>
        ret[1] = IF val = Some(<<"E">>) THEN Some(0)
                 ELSE IF ~IsNone(val) /\ IsSignedDecimal(val.v) THEN Some(SignedValue(val.v))
                 ELSE None

\* a scan of the text left to right: a sign or none, then digits in which
\* one underscore may stand between two digits
RECURSIVE ScanInt(_, _)
ScanInt(t, q) ==
    IF t = <<>> THEN q = "digit"
    ELSE LET c == Head(t)
         IN  IF q = "start" /\ c \in {"+", "-"} THEN ScanInt(Tail(t), "sign")
             ELSE IF IsDigit(c) THEN ScanInt(Tail(t), "digit")
             ELSE IF q = "digit" /\ c = "_" THEN ScanInt(Tail(t), "under")
             ELSE FALSE

\* C7 as amended: "E" gives 0; a text that, once the whitespace around it is
\* dropped, is a sign or none followed by digits with single underscores
\* allowed between digits gives the integer those digits spell; every other
\* argument gives None.
C7_IntLiterals ==
    ret # <<>> =>
        ret[1] = IF val = Some(<<"E">>) THEN Some(0)
                 ELSE IF ~IsNone(val) /\ ScanInt(Strip(val.v), "start")
                      THEN Some(SignedValue(Strip(val.v)))
                 ELSE None

\* a token with whitespace or an underscore in it that got a number
C7_Witness ==
    /\ ret # <<>>
    /\ ~IsNone(ret[1])
    /\ ~IsNone(val)
    /\ \E i \in 1..Len(val.v) : val.v[i] \in {" ", "_"}

\* C8: when a slot's name and a feed record's full_name are equal once both
\* are trimmed and lower-cased, get_player_score returns that record's
\* normalized to-par, its status and its id.
C8_LookupIgnoresCaseAndSpace ==
    \A n \in 1..Len(resolved) :
        \A k \in DOMAIN live_data :
            Lower(Strip(live_data[k].full_name)) = Lower(Strip(SlotRaw(n)))
                => /\ Len(resolved[n]) = 3
                   /\ resolved[n][1] = normalize_topar(live_data[k].topar)
                   /\ resolved[n][2] = StatusOf(live_data[k])
                   /\ resolved[n][3] = live_data[k].id

\* a slot written in another case and with other whitespace than the feed
\* record it resolved to
C8_Witness ==
    \E n \in 1..Len(resolved) :
        \E k \in DOMAIN live_data :
            /\ Lower(Strip(live_data[k].full_name)) = Lower(Strip(SlotRaw(n)))
            /\ Len(resolved[n]) = 3
            /\ Strip(SlotRaw(n)) # Strip(live_data[k].full_name)
            /\ Lower(SlotRaw(n)) # Lower(live_data[k].full_name)

\* the teams whose pick in tier i is the player
Pickers(i, player) ==
    { t \in 1..Len(teams_data) : Strip(teams_data[t].Tier[i]) = player }

FirstPick(i, player) ==
    CHOOSE t \in Pickers(i, player) : \A u \in Pickers(i, player) : t <= u

\* C9: in every tier each picked player is listed once with the number of
\* teams that picked that player there, the counts add up to the number of
\* teams, they do not increase down the list, and players with the same count
\* are in the order of their first pick in the roster.
C9_TierPickCounts ==
    ~IsNone(sidebar) =>
        \A i \in 1..NumTiers :
            LET items == sidebar.v.tier_counts[i]
            IN  /\ \A t \in 1..Len(teams_data) :
                     Cardinality({ j \in 1..Len(items) :
                                     items[j][1] = Strip(teams_data[t].Tier[i]) }) = 1
                /\ \A j \in 1..Len(items) :
                     /\ Pickers(i, items[j][1]) # {}
                     /\ items[j][2] = Cardinality(Pickers(i, items[j][1]))
                /\ SumSeq([j \in 1..Len(items) |-> items[j][2]]) = Len(teams_data)
                /\ \A j \in 1..(Len(items) - 1) :
                     /\ items[j][2] >= items[j + 1][2]
                     /\ items[j][2] = items[j + 1][2]
                          => FirstPick(i, items[j][1]) < FirstPick(i, items[j + 1][1])

\* a panel with a tier in which the more often picked player was first
\* picked later, and a tier in which two players tie
C9_Witness ==
    /\ ~IsNone(sidebar)
    /\ \E i \in 1..NumTiers :
         LET items == sidebar.v.tier_counts[i]
         IN  /\ Len(items) >= 2
             /\ items[1][2] > items[2][2]
             /\ FirstPick(i, items[1][1]) > FirstPick(i, items[2][1])
    /\ \E i \in 1..NumTiers :
         LET items == sidebar.v.tier_counts[i]
         IN  Len(items) >= 2 /\ items[1][2] = items[2][2]

\* C10: every adjusted score is at most worst_score, an adjusted score is
\* never below the player's own normalized to-par, and every Total is at
\* most five times worst_score.
C10_WorstBoundsScores ==
    /\ \A n \in 1..Len(all_player_scores) :
         /\ all_player_scores[n][2] <= worst_score.v
         /\ \A k \in Matches(SlotRaw(n)) :
              Normalizable(live_data[k])
                 => all_player_scores[n][2] >= normalize_topar(live_data[k].topar).v
    /\ \A r \in 1..Len(leaderboard) :
         /\ leaderboard[r].Total <= BestOf * worst_score.v
         /\ \A i \in 1..NumTiers : leaderboard[r].AdjustedScores[i] <= worst_score.v

\* a finished cycle with a cut player whose own to-par is below worst_score
\* and a slot that kept its own score
C10_Witness ==
    /\ pc = "done"
    /\ \E n \in 1..Len(all_player_scores) :
         \E k \in Matches(SlotRaw(n)) :
            /\ IsCut(live_data[k])
            /\ Normalizable(live_data[k])
            /\ normalize_topar(live_data[k].topar).v < all_player_scores[n][2]
    /\ \E n \in 1..Len(all_player_scores) : all_player_scores[n][2] < worst_score.v

====
